---- MODULE Spec2Model ----
(***************************************************************************)
(* A model of app.py: the persona registry EXPERT_TYPES, the credential    *)
(* openai_api_key, the completion call get_llm_response and the page       *)
(* script main().                                                          *)
(*                                                                         *)
(* Text is a sequence of tokens.  User text is a sequence of single        *)
(* characters; the Japanese literals of the source (which the parser does  *)
(* not accept in strings) are one-token ASCII stand-ins, each named next   *)
(* to its definition.                                                      *)
(***************************************************************************)
EXTENDS Integers, Sequences, FiniteSets, TLC

VARIABLES
    openai_api_key,   \* module global, app.py:11
    EXPERT_TYPES,     \* module global, app.py:14-20
    page,             \* per browser session: the widgets, the script's position and what it rendered
    fn,               \* a direct call of get_llm_response: its arguments, the provider's behaviour, its outcome
    failed_before     \* history: whether the session's previous run ended in a warning, an error or a failed call

vars == <<openai_api_key, EXPERT_TYPES, page, fn, failed_before>>

----------------------------------------------------------------------------
(* Bounds *)

\* longest user text
MaxLen == 3
\* largest prompt / completion token count the provider reports
MaxTokens == 1
\* browser sessions served at the same time
NumSessions == 2

Sessions == 1..NumSessions

----------------------------------------------------------------------------
(* Text *)

Whitespace == {" "}
Chars == Whitespace \cup {"a"}
Texts == UNION {[1..n -> Chars] : n \in 0..MaxLen}

RECURSIVE lstrip(_)
lstrip(s) == IF s # <<>> /\ Head(s) \in Whitespace THEN lstrip(Tail(s)) ELSE s

RECURSIVE rstrip(_)
rstrip(s) ==
    IF s # <<>> /\ s[Len(s)] \in Whitespace
    THEN rstrip(SubSeq(s, 1, Len(s) - 1))
    ELSE s

\* str.strip()
strip(s) == rstrip(lstrip(s))

DigitChar(d) == <<"0", "1", "2", "3", "4", "5", "6", "7", "8", "9">>[d + 1]

RECURSIVE Decimal(_)
Decimal(n) == IF n < 10 THEN <<DigitChar(n)>> ELSE Decimal(n \div 10) \o <<DigitChar(n % 10)>>

Group3(n) == <<DigitChar(n \div 100), DigitChar((n \div 10) % 10), DigitChar(n % 10)>>

\* f"{n:,}": decimal digits with a comma between groups of three
RECURSIVE FormatComma(_)
FormatComma(n) ==
    IF n < 1000 THEN Decimal(n)
    ELSE FormatComma(n \div 1000) \o <<",">> \o Group3(n % 1000)

----------------------------------------------------------------------------
(* Python values *)

PyNone == [type |-> "NoneType"]
PyStr(v) == [type |-> "str", value |-> v]
PyDict(items) == [type |-> "dict", items |-> items]
EmptyDict == PyDict(<<>>)

\* truth value of an Optional[str]: None and "" are falsy
Truthy(v) == v.type = "str" /\ v.value # ""

\* dict.get(key, default)
DictGet(d, key, default) == IF key \in DOMAIN d.items THEN d.items[key] ELSE default

\* what os.getenv("OPENAI_API_KEY") can return after load_dotenv()
KeyValues == {PyNone, PyStr(""), PyStr("sk-test")}

----------------------------------------------------------------------------
(* The persona registry *)

\* the keys in the order of the dict literal; stand-ins for
\* 医療専門家, 法律専門家, 金融専門家, ITエンジニア, マーケティング専門家
ExpertKeys == <<"medical", "legal", "finance", "it_engineer", "marketing">>

\* the registry as written; each instruction is a one-token stand-in for the
\* Japanese sentence of that entry
ExpertTypesLiteral ==
    [l \in {ExpertKeys[i] : i \in DOMAIN ExpertKeys} |->
        CASE l = "medical" -> <<"You are an experienced medical expert ...">>
          [] l = "legal" -> <<"You are a legal expert ...">>
          [] l = "finance" -> <<"You are a finance and investment expert ...">>
          [] l = "it_engineer" -> <<"You are an experienced IT engineer ...">>
          [] l = "marketing" -> <<"You are a marketing expert ...">>]

----------------------------------------------------------------------------
(* Exceptions *)

Exc(cls, msg) == [cls |-> cls, msg |-> msg]

\* the classes the try block can raise; every one derives from Exception
ExceptionSubclasses ==
    {"Exception", "KeyError", "AttributeError", "ValidationError",
     "AuthenticationError", "APIConnectionError"}

\* str(e); the message of a KeyError is the repr of the missing key
str(e) == e.msg
KeyError(key) == Exc("KeyError", <<"'", key, "'">>)
NoneHasNoGet == Exc("AttributeError", <<"'NoneType' object has no attribute 'get'">>)

Ok(v) == [ok |-> TRUE, val |-> v]
Err(e) == [ok |-> FALSE, exc |-> e]

----------------------------------------------------------------------------
(* The provider: what the world outside the process does during one call  *)

UsageKeys == {"prompt_tokens", "completion_tokens", "total_tokens"}

\* the usage the API computes for a completion: total is the sum
ApiUsage(p, c) ==
    [k \in UsageKeys |->
        CASE k = "prompt_tokens" -> p
          [] k = "completion_tokens" -> c
          [] k = "total_tokens" -> p + c]

\* usage objects that reach the process: any subset of the counters
UsageItems ==
    {[k \in K |-> ApiUsage(p, c)[k]] :
        K \in SUBSET UsageKeys, p \in 0..MaxTokens, c \in 0..MaxTokens}

\* response.response_metadata: no 'token_usage' entry, a null one, or a usage object
Metadatas ==
    {EmptyDict, PyDict([k \in {"token_usage"} |-> PyNone])}
        \cup {PyDict([k \in {"token_usage"} |-> PyDict(u)]) : u \in UsageItems}

Replies == {<<"h", "e", "l", "l", "o">>, <<>>}

Responses == [content : Replies, response_metadata : Metadatas]

ClientErrors == {Exc("ValidationError", <<"Did not find openai_api_key">>)}
ProviderErrors ==
    {Exc("AuthenticationError", <<"Incorrect API key provided">>),
     Exc("APIConnectionError", <<"Connection error.">>)}

\* client: what ChatOpenAI(...) does; invoke: what llm.invoke(messages) does
Envs ==
    [client : {Ok("llm")}, invoke : {Ok(r) : r \in Responses} \cup {Err(e) : e \in ProviderErrors}]
        \cup [client : {Err(e) : e \in ClientErrors}, invoke : {Err(e) : e \in ProviderErrors}]

----------------------------------------------------------------------------
(* get_llm_response *)

\* stand-in for the literal "エラーが発生しました: "
ErrorPrefix == <<"An error occurred: ">>

model == "gpt-4o-mini"
temperature == "0.7"

SystemMessage(content) == [role |-> "system", content |-> content]
HumanMessageStripped(content) == [role |-> "user", content |-> strip(content)]
HumanMessage(content) == [role |-> "user", content |-> content]

\* llm.invoke(messages): one request to the provider, answered or failed
llm_invoke_retrying(request, env) ==
    [result |-> env.invoke,
     requests |-> IF env.invoke.ok THEN <<request>> ELSE <<request, request>>]
llm_invoke(request, env) == [result |-> env.invoke, requests |-> <<request>>]

\* the three .get(..., 0) reads of the usage object
TokenCountersTotalFromPrompt(token_usage) ==
    <<DictGet(token_usage, "prompt_tokens", 0),
      DictGet(token_usage, "completion_tokens", 0),
      DictGet(token_usage, "prompt_tokens", 0)>>
TokenCountersNoDefault(token_usage) ==
    <<DictGet(token_usage, "prompt_tokens", 1),
      DictGet(token_usage, "completion_tokens", 0),
      DictGet(token_usage, "total_tokens", 0)>>
TokenCounters(token_usage) ==
    <<DictGet(token_usage, "prompt_tokens", 0),
      DictGet(token_usage, "completion_tokens", 0),
      DictGet(token_usage, "total_tokens", 0)>>

\* the body of the try block: the value it returns or the exception it
\* raises, and the requests it sent to the provider on the way
TryBody(user_input, expert_type, env) ==
    IF ~env.client.ok
    THEN [res |-> Err(env.client.exc), requests |-> <<>>]
    ELSE IF expert_type \notin DOMAIN EXPERT_TYPES
    THEN [res |-> Err(KeyError(expert_type)), requests |-> <<>>]
    ELSE
        LET messages == <<SystemMessage(EXPERT_TYPES[expert_type]), HumanMessage(user_input)>>
            request == [model |-> model, temperature |-> temperature,
                        openai_api_key |-> openai_api_key, messages |-> messages]
            call == llm_invoke(request, env)
        IN  IF ~call.result.ok
            THEN [res |-> Err(call.result.exc), requests |-> call.requests]
            ELSE
                LET response == call.result.val
                    token_usage == DictGet(response.response_metadata, "token_usage", EmptyDict)
                IN  IF token_usage.type # "dict"
                    THEN [res |-> Err(NoneHasNoGet), requests |-> call.requests]
                    ELSE [res |-> Ok(<<response.content>> \o TokenCounters(token_usage)),
                          requests |-> call.requests]

\* except Exception
ExceptOnlyProviderErrors(e) == e.cls \in {"AuthenticationError", "APIConnectionError"}
ExceptException(e) == e.cls \in ExceptionSubclasses

NoExc == Exc("", <<>>)

\* the outcome of one call: the returned 4-tuple, or the exception that escapes
get_llm_response(user_input, expert_type, env) ==
    LET body == TryBody(user_input, expert_type, env)
    IN  IF body.res.ok
        THEN [raised |-> FALSE, ret |-> body.res.val, exc |-> NoExc, requests |-> body.requests]
        ELSE IF ExceptException(body.res.exc)
        THEN [raised |-> FALSE, ret |-> <<ErrorPrefix \o str(body.res.exc), 0, 0, 0>>,
              exc |-> NoExc, requests |-> body.requests]
        ELSE [raised |-> TRUE, ret |-> <<>>, exc |-> body.res.exc, requests |-> body.requests]

----------------------------------------------------------------------------
(* The page script main() *)

\* list(EXPERT_TYPES.keys()): the keys in insertion order
RadioOptionsWithStale == ExpertKeys \o <<"unknown">>
RadioOptions == SelectSeq(ExpertKeys, LAMBDA k : k \in DOMAIN EXPERT_TYPES)

Range(seq) == {seq[i] : i \in DOMAIN seq}

\* the provider's behaviour observed by a run (none when no call was made)
NoEnv == [client |-> Err(NoExc), invoke |-> Err(NoExc)]
NotCalled == [called |-> FALSE, env |-> NoEnv]
Called(env) == [called |-> TRUE, env |-> env]

\* what a run leaves on the page below the form
Shown(status, response, metrics, info) ==
    [status |-> status, response |-> response, metrics |-> metrics, info |-> info]

\* the branch the button handler takes
GateNoStrip(user_input) ==
    IF user_input = <<>> THEN "warning"
    ELSE IF ~Truthy(openai_api_key) THEN "error"
    ELSE "call"
GateNoKeyCheck(user_input) ==
    IF strip(user_input) = <<>> THEN "warning" ELSE "call"
Gate(user_input) ==
    IF strip(user_input) = <<>> THEN "warning"
    ELSE IF ~Truthy(openai_api_key) THEN "error"
    ELSE "call"

\* the answer, the three metrics and the closing note
Render(expert_type, ret) ==
    Shown("answer", ret[1],
          <<FormatComma(ret[2]), FormatComma(ret[3]), FormatComma(ret[4])>>,
          <<expert_type>>)

\* one run of the script: the page it leaves
main(expert_type, user_input, clicked, env) ==
    LET widgets == [pc |-> "idle", expert_type |-> expert_type,
                    user_input |-> user_input, clicked |-> clicked]
        quiet(status) ==
            [pc |-> "idle", expert_type |-> expert_type, user_input |-> user_input,
             clicked |-> clicked, display |-> Shown(status, <<>>, <<>>, <<>>),
             requests |-> <<>>, invocations |-> 0, provider |-> NotCalled]
    IN  IF ~clicked THEN quiet("form")
        ELSE IF Gate(user_input) = "warning" THEN quiet("warning")
        ELSE IF Gate(user_input) = "error" THEN quiet("error")
        ELSE
            LET r == get_llm_response(user_input, expert_type, env)
            IN  [pc |-> "idle", expert_type |-> expert_type, user_input |-> user_input,
                 clicked |-> clicked,
                 display |-> IF r.raised
                             THEN Shown("exception", str(r.exc), <<>>, <<>>)
                             ELSE Render(expert_type, r.ret),
                 requests |-> r.requests, invocations |-> 1, provider |-> Called(env)]

\* the page while the spinner is shown: the run has passed the checks and
\* the call has not returned
Spinning(expert_type, user_input) ==
    [pc |-> "spinner", expert_type |-> expert_type, user_input |-> user_input,
     clicked |-> TRUE, display |-> Shown("spinner", <<>>, <<>>, <<>>),
     requests |-> <<>>, invocations |-> 0, provider |-> NotCalled]

\* the local variables of the run in session s
LocalsShared(s) ==
    LET t == CHOOSE t \in Sessions :
                 /\ page[t].pc = "spinner"
                 /\ \A u \in Sessions : page[u].pc = "spinner" => t <= u
    IN  [expert_type |-> page[t].expert_type, user_input |-> page[t].user_input]
Locals(s) == [expert_type |-> page[s].expert_type, user_input |-> page[s].user_input]

----------------------------------------------------------------------------
(* Actions *)

\* the run that left page pg ended in one of the three error outcomes
ErrorOutcome(pg) ==
    \/ pg.display.status \in {"warning", "error", "exception"}
    \/ /\ pg.display.status = "answer"
       /\ Len(pg.display.response) >= Len(ErrorPrefix)
       /\ SubSeq(pg.display.response, 1, Len(ErrorPrefix)) = ErrorPrefix

\* the script runs from top to bottom in session s
ScriptRunHalted(s, expert_type, user_input, clicked, env) ==
    /\ page[s].pc = "idle"
    /\ page' = [page EXCEPT ![s] =
                   IF page[s].display.status \in {"warning", "error"}
                   THEN [page[s] EXCEPT !.expert_type = expert_type,
                                        !.user_input = user_input,
                                        !.clicked = clicked]
                   ELSE main(expert_type, user_input, clicked, env)]
    /\ failed_before' = [failed_before EXCEPT ![s] = ErrorOutcome(page[s])]
    /\ UNCHANGED <<openai_api_key, EXPERT_TYPES, fn>>
ScriptRun(s, expert_type, user_input, clicked, env) ==
    /\ page[s].pc = "idle"
    /\ page' = [page EXCEPT ![s] = main(expert_type, user_input, clicked, env)]
    /\ failed_before' = [failed_before EXCEPT ![s] = ErrorOutcome(page[s])]
    /\ UNCHANGED <<openai_api_key, EXPERT_TYPES, fn>>

\* another persona is picked in the sidebar: the script reruns with the
\* button not pressed
SelectExpert(s) ==
    \E expert_type \in Range(RadioOptions) :
        ScriptRun(s, expert_type, page[s].user_input, FALSE, NoEnv)

\* the text area is edited: the script reruns with the button not pressed
TypeInput(s) ==
    \E user_input \in Texts :
        ScriptRun(s, page[s].expert_type, user_input, FALSE, NoEnv)

\* the button is pressed: the script reruns with the button pressed, and
\* the provider behaves in one of the ways it can
Submit(s) ==
    \E env \in Envs :
        ScriptRun(s, page[s].expert_type, page[s].user_input, TRUE, env)

\* the page after the first run of the script in a new session
FirstPage == main(ExpertKeys[1], <<>>, FALSE, NoEnv)

NoOut == [raised |-> FALSE, ret |-> <<>>, exc |-> NoExc, requests |-> <<>>]
FnUnused ==
    [pc |-> "unused", user_input |-> <<>>, expert_type |-> ExpertKeys[1],
     env |-> NoEnv, out |-> NoOut]

Init ==
    /\ openai_api_key \in KeyValues
    /\ EXPERT_TYPES = ExpertTypesLiteral
    /\ page = [s \in Sessions |-> FirstPage]
    /\ fn = FnUnused
    /\ failed_before = [s \in Sessions |-> FALSE]

\* one user, one run at a time
Next == SelectExpert(1) \/ TypeInput(1) \/ Submit(1)

Spec == Init /\ [][Next]_vars

----------------------------------------------------------------------------
(* get_llm_response called directly, with any arguments *)

FnTexts == {t \in Texts : Len(t) <= 1}
FnLabels == Range(ExpertKeys) \cup {"unknown"}

InitFn ==
    /\ openai_api_key \in KeyValues
    /\ EXPERT_TYPES = ExpertTypesLiteral
    /\ page = [s \in Sessions |-> FirstPage]
    /\ fn \in [pc : {"ready"}, user_input : FnTexts, expert_type : FnLabels,
               env : Envs, out : {NoOut}]
    /\ failed_before = [s \in Sessions |-> FALSE]

Call ==
    /\ fn.pc = "ready"
    /\ fn' = [fn EXCEPT !.pc = "returned",
                        !.out = get_llm_response(fn.user_input, fn.expert_type, fn.env)]
    /\ UNCHANGED <<openai_api_key, EXPERT_TYPES, page, failed_before>>

NextFn == Call

SpecFn == InitFn /\ [][NextFn]_vars

----------------------------------------------------------------------------
(* Several sessions at once: a run blocks in the spinner while the call   *)
(* is in flight, and the runs of other sessions interleave with it        *)

ConcTexts == {<<" ">>, <<"a", " ">>}

\* the first two personas of the selector
ConcLabels == Range(SubSeq(RadioOptions, 1, 2))

\* the provider answers with full usage, answers without usage, or fails
ConcEnvs ==
    {env \in Envs :
        /\ env.client.ok
        /\ ~env.invoke.ok => env.invoke.exc.cls = "AuthenticationError"
        /\ env.invoke.ok =>
              /\ env.invoke.val.content # <<>>
              /\ env.invoke.val.response_metadata \in
                    {EmptyDict, PyDict([k \in {"token_usage"} |-> PyDict(ApiUsage(1, 1))])}}

ConcSelectExpert(s) ==
    /\ page[s].pc = "idle"
    /\ \E expert_type \in ConcLabels :
          ScriptRun(s, expert_type, page[s].user_input, FALSE, NoEnv)

ConcTypeInput(s) ==
    /\ page[s].pc = "idle"
    /\ \E user_input \in ConcTexts :
          ScriptRun(s, page[s].expert_type, user_input, FALSE, NoEnv)

\* the button is pressed and the run stops short of the call: it ends with
\* the warning or the error
Rejected(s) ==
    /\ page[s].pc = "idle"
    /\ Gate(page[s].user_input) # "call"
    /\ ScriptRun(s, page[s].expert_type, page[s].user_input, TRUE, NoEnv)

\* the button is pressed and the run enters the spinner
BeginCall(s) ==
    /\ page[s].pc = "idle"
    /\ Gate(page[s].user_input) = "call"
    /\ page' = [page EXCEPT ![s] = Spinning(page[s].expert_type, page[s].user_input)]
    /\ UNCHANGED <<openai_api_key, EXPERT_TYPES, fn, failed_before>>

\* the call returns and the run renders to its end
FinishCall(s) ==
    /\ page[s].pc = "spinner"
    /\ \E env \in ConcEnvs :
          page' = [page EXCEPT ![s] =
                      [main(Locals(s).expert_type, Locals(s).user_input, TRUE, env)
                          EXCEPT !.expert_type = page[s].expert_type,
                                 !.user_input = page[s].user_input]]
    /\ UNCHANGED <<openai_api_key, EXPERT_TYPES, fn, failed_before>>

NextConc ==
    \E s \in Sessions :
        \/ ConcSelectExpert(s)
        \/ ConcTypeInput(s)
        \/ Rejected(s)
        \/ BeginCall(s)
        \/ FinishCall(s)

SpecConc == Init /\ [][NextConc]_vars

----------------------------------------------------------------------------
(* Properties of get_llm_response (under SpecFn) *)

\* the exceptions the steps of the call in fn raise, read off its arguments
\* and the provider's behaviour
FnStepsRaise ==
    (IF fn.env.client.ok THEN {} ELSE {fn.env.client.exc})
        \cup (IF fn.expert_type \in DOMAIN EXPERT_TYPES THEN {} ELSE {KeyError(fn.expert_type)})
        \cup (IF fn.env.invoke.ok THEN {} ELSE {fn.env.invoke.exc})
        \cup (IF /\ fn.env.invoke.ok
                 /\ "token_usage" \in DOMAIN fn.env.invoke.val.response_metadata.items
                 /\ fn.env.invoke.val.response_metadata.items["token_usage"].type = "NoneType"
              THEN {NoneHasNoGet}
              ELSE {})

\* the usage object the provider reported in fn ({} when it reported none)
FnUsage ==
    LET md == fn.env.invoke.val.response_metadata.items
    IN  IF "token_usage" \in DOMAIN md THEN md["token_usage"].items ELSE <<>>

FnSucceeded == fn.pc = "returned" /\ FnStepsRaise = {}

\* C1: get_llm_response never raises; when constructing the client, looking
\* up the persona, invoking the provider or reading the metadata raises, it
\* returns the failure prefix followed by the exception's message, with the
\* three counters 0.
C1_NeverRaises ==
    fn.pc = "returned" =>
        /\ ~fn.out.raised
        /\ FnStepsRaise # {} =>
              /\ \E e \in FnStepsRaise : fn.out.ret[1] = ErrorPrefix \o str(e)
              /\ fn.out.ret[2] = 0 /\ fn.out.ret[3] = 0 /\ fn.out.ret[4] = 0

\* C1 witness: the persona lookup raised and the call returned the error tuple
C1_Witness ==
    /\ fn.pc = "returned"
    /\ fn.env.client.ok
    /\ fn.expert_type \notin DOMAIN EXPERT_TYPES
    /\ fn.out.ret = <<ErrorPrefix \o <<"'", "unknown", "'">>, 0, 0, 0>>

\* C2 as stated: every successful result has total = prompt + completion,
\* whichever counters the usage metadata carries.
C2_TotalIsSumAlways ==
    FnSucceeded => fn.out.ret[4] = fn.out.ret[2] + fn.out.ret[3]

\* C2 amended: a successful result has total = prompt + completion when the
\* usage metadata carries all three counters, or none of them.
C2_TotalIsSumWhenAllOrNone ==
    (FnSucceeded /\ DOMAIN FnUsage \in {UsageKeys, {}}) =>
        fn.out.ret[4] = fn.out.ret[2] + fn.out.ret[3]

\* C2 witness: a success with all three counters reported and a total of 2
C2_Witness ==
    /\ FnSucceeded
    /\ DOMAIN FnUsage = UsageKeys
    /\ fn.out.ret[2] = 1 /\ fn.out.ret[3] = 1 /\ fn.out.ret[4] = 2

----------------------------------------------------------------------------
(* Properties of the page with one user (under Spec) *)

\* the text is empty or holds whitespace only
IsBlank(text) == \A i \in DOMAIN text : text[i] \in Whitespace

\* the latest run of session s was a submission that has ended
Submitted(s) == page[s].pc = "idle" /\ page[s].clicked

\* get_llm_response was not invoked in the latest run of session s
NotInvoked(s) ==
    page[s].invocations = 0 /\ page[s].requests = <<>> /\ ~page[s].provider.called

\* C3 as stated: without a credential every submission, whatever its text,
\* makes no call and produces the error message.
C3_NoKeyAlwaysError ==
    (~Truthy(openai_api_key) /\ Submitted(1)) =>
        NotInvoked(1) /\ page[1].display.status = "error"

\* C3 amended: without a credential no submission makes a call; a
\* submission with non-blank text produces the error message, one with
\* blank text produces the empty-input warning instead.
C3_NoKeyNoCall ==
    (~Truthy(openai_api_key) /\ Submitted(1)) =>
        /\ NotInvoked(1)
        /\ page[1].display.status =
              IF IsBlank(page[1].user_input) THEN "warning" ELSE "error"

\* C3 witness: an empty credential, non-blank text submitted, the error shown
C3_Witness ==
    /\ openai_api_key = PyStr("")
    /\ Submitted(1)
    /\ ~IsBlank(page[1].user_input)
    /\ page[1].display.status = "error"
    /\ NotInvoked(1)

\* C4: a submission whose text is empty or whitespace only makes no call
\* and produces the warning, with or without a credential.
C4_BlankInputWarning ==
    (Submitted(1) /\ IsBlank(page[1].user_input)) =>
        NotInvoked(1) /\ page[1].display.status = "warning"

\* C4 witness: whitespace-only text submitted with a credential configured
C4_Witness ==
    /\ Truthy(openai_api_key)
    /\ Submitted(1)
    /\ page[1].user_input = <<" ", " ">>
    /\ page[1].display.status = "warning"
    /\ NotInvoked(1)

\* C6: every request sent to the provider carries exactly two messages, the
\* system message with the instruction of the selected persona and then the
\* user message with the submitted text unaltered, and the fixed model
\* identifier and temperature 0.7.
C6_RequestShape ==
    \A i \in DOMAIN page[1].requests :
        LET request == page[1].requests[i]
        IN  /\ Len(request.messages) = 2
            /\ request.messages[1] =
                  [role |-> "system", content |-> ExpertTypesLiteral[page[1].expert_type]]
            /\ request.messages[2] = [role |-> "user", content |-> page[1].user_input]
            /\ request.model = "gpt-4o-mini"
            /\ request.temperature = "0.7"

\* C6 witness: a request was sent for a text with whitespace on both sides
C6_Witness ==
    /\ Submitted(1)
    /\ page[1].user_input = <<" ", "a", " ">>
    /\ page[1].expert_type = "legal"
    /\ Len(page[1].requests) = 1

ProviderFails(s) ==
    LET env == page[s].provider.env
    IN  \/ ~env.client.ok
        \/ ~env.invoke.ok
        \/ /\ "token_usage" \in DOMAIN env.invoke.val.response_metadata.items
           /\ env.invoke.val.response_metadata.items["token_usage"].type = "NoneType"

\* C8: after any run, failed or not, the page takes the next submission,
\* and what a submission produces follows from its own text, the
\* credential and the provider's behaviour alone: the warning for blank
\* text, else the error without a credential, else the answer, which is
\* the error text exactly when the provider's behaviour makes the call fail.
C8_OutcomeFromOwnInputs ==
    /\ page[1].pc = "idle"
    /\ ENABLED Submit(1)
    /\ Submitted(1) =>
          /\ page[1].display.status =
                IF IsBlank(page[1].user_input) THEN "warning"
                ELSE IF ~Truthy(openai_api_key) THEN "error"
                ELSE "answer"
          /\ page[1].display.status = "answer" =>
                /\ page[1].provider.called
                /\ ErrorOutcome(page[1]) <=> ProviderFails(1)

\* C8 witness: the run before ended in an error outcome and this
\* submission produced the provider's answer
C8_Witness ==
    /\ failed_before[1]
    /\ Submitted(1)
    /\ page[1].display.status = "answer"
    /\ page[1].display.response = <<"h", "e", "l", "l", "o">>

\* C9: the registry holds exactly five labels, each with a non-empty
\* instruction, and never changes; the selector offers exactly its labels,
\* so the selected label, and the label of every call, is a registry key.
C9_RegistryFixed ==
    /\ EXPERT_TYPES = ExpertTypesLiteral
    /\ Cardinality(DOMAIN EXPERT_TYPES) = 5
    /\ \A label \in DOMAIN EXPERT_TYPES : Len(EXPERT_TYPES[label]) > 0
    /\ Range(RadioOptions) = DOMAIN EXPERT_TYPES
    /\ Len(RadioOptions) = 5
    /\ page[1].expert_type \in DOMAIN EXPERT_TYPES
    /\ page[1].invocations = 1 =>
          page[1].display.response # ErrorPrefix \o str(KeyError(page[1].expert_type))

\* C9 witness: a call made for the last label of the selector
C9_Witness ==
    /\ Submitted(1)
    /\ page[1].invocations = 1
    /\ page[1].expert_type = "marketing"
    /\ Len(page[1].requests) = 1
    /\ EXPERT_TYPES = ExpertTypesLiteral

----------------------------------------------------------------------------
(* Properties of the page with several users (under SpecConc) *)

\* what session s shows after a call comes from its own text, its own
\* persona and the provider's answer to its own call
OwnResult(s) ==
    (Submitted(s) /\ page[s].provider.called) =>
        /\ page[s].requests =
              <<[model |-> "gpt-4o-mini", temperature |-> "0.7",
                 openai_api_key |-> openai_api_key,
                 messages |-> <<[role |-> "system",
                                 content |-> ExpertTypesLiteral[page[s].expert_type]],
                                [role |-> "user", content |-> page[s].user_input]>>]>>
        /\ page[s].display.info = <<page[s].expert_type>>
        /\ page[s].display.response =
              IF page[s].provider.env.invoke.ok
              THEN page[s].provider.env.invoke.val.content
              ELSE ErrorPrefix \o str(page[s].provider.env.invoke.exc)

\* C10: under every interleaving of the sessions' runs, what a session
\* shows is built from its own text, persona and provider response, and no
\* step writes the registry or the credential.
C10_Independent ==
    /\ [](\A s \in Sessions : OwnResult(s))
    /\ [][EXPERT_TYPES' = EXPERT_TYPES /\ openai_api_key' = openai_api_key]_vars

\* C10 witness: session 2 shows the answer to its own call, made for
\* another persona, while the call of session 1 is still in flight
C10_Witness ==
    /\ page[1].pc = "spinner"
    /\ page[1].expert_type = "medical"
    /\ Submitted(2)
    /\ page[2].expert_type = "legal"
    /\ page[2].provider.called
    /\ page[2].display.status = "answer"
    /\ page[2].display.info = <<"legal">>

====
